---------------------------- MODULE Spec2Model ----------------------------
(***************************************************************************)
(* Model of the Kintone image-compression batch: the ApiCounter, the       *)
(* KintoneClient (cursor pagination and the four remote calls), the        *)
(* deleteOldImages phase, the runCompression phase and main.               *)
(*                                                                         *)
(* The program is one sequential async function chain.  Each action below  *)
(* is one stretch of code between two suspension points (one remote call   *)
(* at most), located by pc.  A remote call ends in one of three ways:      *)
(*   "ok"      fetch resolves with res.ok                                  *)
(*   "status"  fetch resolves with !res.ok, the client throws              *)
(*   "reject"  fetch itself rejects (transport failure), the await throws  *)
(* Record ids and the watermark are strings in the program; they are       *)
(* modelled as sequences of decimal digits and parsed by Number.           *)
(***************************************************************************)
EXTENDS Integers, Sequences, FiniteSets, TLC

VARIABLES
    cfg,            \* Config (loadConfig) plus the initial content of the store
    store,          \* the remote app: sequence of records, ascending id
    uploads,        \* the files uploaded so far; the i-th got fileKey UploadBase + i
    count,          \* ApiCounter.count
    calls,          \* history: every remote call issued, in order
    pc,             \* position in main / deleteOldImages / runCompression
    all,            \* getAllRecords: accumulator
    lastId,         \* getAllRecords: cursor
    records,        \* the array getAllRecords returned to the running phase
    ri, fi, ai,     \* loop positions: record, field, attachment (1-based)
    delResults,     \* deleteOldImages: results
    delStopped,     \* deleteOldImages: stoppedByApiLimit
    totalDeleted,   \* deleteOldImages: totalDeleted
    cmpResults,     \* runCompression: results
    result,         \* runCompression: ProcessResult of the record in progress
    processedCount, \* runCompression: processedCount
    cmpStopped,     \* runCompression: stoppedByApiLimit
    maxId,          \* runCompression: maxId
    updatedFileKeys,\* runCompression: plan of the field in progress
    fieldModified,  \* runCompression: fieldModified
    totalCompressed,\* runCompression: totalCompressed
    buffer,         \* runCompression: outcome of compressToBuffer awaiting upload
    visited,        \* history: ids the compression record loop got past its checks for
    emitted,        \* the LAST_PROCESSED_ID line: <<>> or <<maxId>>
    hasErrors,      \* main: hasErrors
    exitCode,       \* process exit status, -1 while running
    faults,         \* number of remote calls that failed so far
    probe,          \* ApiCounter unit harness: last hasCapacity call observed
    job,            \* compressor unit harness: arguments of compressToBuffer, and the codec
    ret             \* compressor unit harness: << >> or << what compressToBuffer did >>

vars == << cfg, store, uploads, count, calls, pc, all, lastId, records, ri, fi, ai,
           delResults, delStopped, cmpResults, result, processedCount, cmpStopped,
           maxId, updatedFileKeys, fieldModified, totalCompressed, buffer, visited,
           emitted, hasErrors, exitCode, faults, probe, job, ret, totalDeleted >>

----------------------------------------------------------------------------
(* Bounds of the model *)

\* Largest number of records in a generated store.
MaxRecords == 2
\* Largest quota ceiling tried besides the default one.
MaxApiCalls == 5
\* Largest batch-size cap tried (0 = no cap).
MaxBatch == 1
\* At most this many remote calls fail in one run.
MaxFaults == 1
\* Page size of getAllRecords (const limit).  The program pages by 500; the
\* model pages by this smaller number, still above the size of the generated
\* stores, so that page boundaries occur in the paging stores below.
limit == 3

(* Program constants *)

\* loadConfig: MAX_API_CALLS ?? "9000"
DefaultMaxApiCalls == 9000
\* loadConfig: TARGET_QUALITY ?? "80"
DefaultTargetQuality == 80
\* loadConfig: MAX_FILE_SIZE_MB ?? "1"
maxFileSizeMB == 1
\* runCompression: hasCapacity(3)
CompressionNeeded == 3
\* deleteOldImages: hasCapacity(1)
DeleteNeeded == 1

maxSizeBytes == maxFileSizeMB * 1024 * 1024

\* config.attachmentFields
fieldCodes == << "A", "B" >>

----------------------------------------------------------------------------
(* Strings *)

\* JavaScript Number(s) on a string of decimal digits; Number("") is 0.
RECURSIVE Number(_)
Number(s) ==
    IF s = << >> THEN 0
    ELSE Number(SubSeq(s, 1, Len(s) - 1)) * 10 + s[Len(s)]

\* The decimal string of a record number, as the store returns $id.value.
RECURSIVE IdStr(_)
IdStr(n) == IF n < 10 THEN << n >> ELSE IdStr(n \div 10) \o << n % 10 >>

\* String.prototype.toLowerCase on the letters that occur in the model.
LowerChar(c) ==
    CASE c = "P" -> "p" [] c = "N" -> "n" [] c = "G" -> "g"
      [] c = "J" -> "j" [] c = "D" -> "d" [] c = "F" -> "f"
      [] OTHER -> c

toLowerCase(s) == [i \in 1..Len(s) |-> LowerChar(s[i])]

\* Position of the last "." of s that is followed by at least one character
\* and no further ".": where /^.*(\.[^.]+)$/ and /\.[^.]+$/ match; 0 if none.
ExtDot(s) ==
    LET dots == { i \in 1..Len(s) : s[i] = "." /\ i < Len(s)
                                   /\ \A j \in (i+1)..Len(s) : s[j] # "." }
    IN  IF dots = {} THEN 0 ELSE CHOOSE i \in dots : TRUE

IMAGE_EXTENSIONS ==
    { << ".", "j", "p", "g" >>, << ".", "j", "p", "e", "g" >>,
      << ".", "p", "n", "g" >>, << ".", "h", "e", "i", "c" >>,
      << ".", "h", "e", "i", "f" >>, << ".", "w", "e", "b", "p" >>,
      << ".", "a", "v", "i", "f" >>, << ".", "t", "i", "f", "f" >>,
      << ".", "t", "i", "f" >> }

isImageFile(fileName) ==
    LET low == toLowerCase(fileName)
        d   == ExtDot(low)
        ext == IF d = 0 THEN low ELSE SubSeq(low, d, Len(low))
    IN  ext \in IMAGE_EXTENSIONS

----------------------------------------------------------------------------
(* The store and the inputs *)

NamePhotoJpg == << "a", ".", "j", "p", "g" >>
NameScanPNG  == << "b", ".", "P", "N", "G" >>
NameDocPdf   == << "c", ".", "p", "d", "f" >>

BigSize   == 2 * 1024 * 1024
SmallSize == 1024

\* An attachment as the store returns it.  enc is what compressToBuffer does
\* with the downloaded bytes: "result" (a CompressResult), "null" or "throw".
File(key, name, size, enc) ==
    [ fileKey |-> key, name |-> name, size |-> size, enc |-> enc ]

\* The attachment fields of the record shapes the stores are built from;
\* id makes the file keys distinct.
\*   "one"    A: one oversized image
\*   "multi"  A: a document, an oversized image, an oversized image the codec
\*               throws on;  B: an oversized image, an oversized image the
\*               codec returns null for
\*   "docs"   A: a small image and a document;  B: a document
\*   "empty"  no attachment
ShapeNames == { "one", "multi", "docs" }

ShapeFields(shape, id) ==
    LET k(f, p) == id * 100 + f * 10 + p
    IN  CASE shape = "one" ->
               [ A |-> << File(k(1,1), NamePhotoJpg, BigSize, "result") >>,
                 B |-> << >> ]
          [] shape = "multi" ->
               [ A |-> << File(k(1,1), NameDocPdf, BigSize, "null"),
                          File(k(1,2), NameScanPNG, BigSize, "result"),
                          File(k(1,3), NamePhotoJpg, BigSize, "throw") >>,
                 B |-> << File(k(2,1), NamePhotoJpg, BigSize, "result"),
                          File(k(2,2), NameScanPNG, BigSize, "null") >> ]
          [] shape = "docs" ->
               [ A |-> << File(k(1,1), NamePhotoJpg, SmallSize, "null"),
                          File(k(1,2), NameDocPdf, BigSize, "null") >>,
                 B |-> << File(k(2,1), NameDocPdf, SmallSize, "null") >> ]
          [] OTHER ->
               [ A |-> << >>, B |-> << >> ]

\* The store built from a sequence of shapes: ids 1..n in ascending order; the
\* first `cutoff` records were created before the retention cutoff date.
MakeStore(shapes, cutoff) ==
    [ i \in 1..Len(shapes) |->
        [ id |-> i, old |-> (i <= cutoff), files |-> ShapeFields(shapes[i], i) ] ]

RECURSIVE SeqsUpTo(_, _)
SeqsUpTo(S, n) ==
    IF n = 0 THEN { << >> }
    ELSE LET shorter == SeqsUpTo(S, n - 1)
         IN  shorter \cup { Append(s, x) : s \in { t \in shorter : Len(t) = n - 1 }, x \in S }

\* The store of the resume scenario: ten records without attachments.
TenEmpty == [ i \in 1..10 |-> "empty" ]

Watermarks == { << >> } \cup { IdStr(n) : n \in 0..MaxRecords }

Config(m, d, b, w, s, c) ==
    [ maxApiCalls |-> m, enableDeleteOldImages |-> d, batchSize |-> b,
      lastProcessedId |-> w, shapes |-> s, cutoff |-> c ]

\* Generated stores with every small ceiling, batch cap and watermark.  The
\* cutoff only matters when the deletion phase runs; it then leaves at most
\* the newest record out.
GeneratedConfigs ==
    { Config(m, d, b, w, s, c) :
        m \in 0..MaxApiCalls \cup { DefaultMaxApiCalls },
        d \in BOOLEAN, b \in 0..MaxBatch, w \in Watermarks,
        s \in SeqsUpTo(ShapeNames, MaxRecords), c \in 0..MaxRecords }

\* The resume scenario: ids 1..10, default ceiling, watermark none, 5 or 10.
ResumeConfigs ==
    { Config(DefaultMaxApiCalls, FALSE, 0, w, TenEmpty, 0) :
        w \in { << >>, IdStr(5), IdStr(10) } }

\* Paging: stores of every size from MaxRecords + 1 up to two full pages and
\* one record, of records the deletion phase prunes and the compression pass
\* skips, under the default ceiling.
PagingConfigs ==
    { Config(DefaultMaxApiCalls, d, 0, w, [ i \in 1..n |-> "docs" ],
             IF d THEN n ELSE 0) :
        d \in BOOLEAN, w \in { << >>, IdStr(1) },
        n \in (MaxRecords + 1)..(2 * limit + 1) }

Configs ==
    { c \in GeneratedConfigs :
        /\ c.cutoff <= Len(c.shapes)
        /\ (~c.enableDeleteOldImages => c.cutoff = 0)
        /\ (c.enableDeleteOldImages => c.cutoff + 1 >= Len(c.shapes)) }
    \cup ResumeConfigs \cup PagingConfigs

----------------------------------------------------------------------------
(* ApiCounter *)

\* increment changed to count a call twice.
incrementTwice(c) == c + 2

\* ApiCounter.increment: this.count++
increment(c) == c + 1

\* hasCapacity changed to a strict comparison.
hasCapacityStrict(needed) == count + needed < cfg.maxApiCalls

\* ApiCounter.hasCapacity: this.count + needed <= this.limit
hasCapacity(needed) == count + needed <= cfg.maxApiCalls

\* ApiCounter.remaining: Math.max(0, this.limit - this.count)
remaining ==
    IF cfg.maxApiCalls - count > 0 THEN cfg.maxApiCalls - count ELSE 0

----------------------------------------------------------------------------
(* KintoneClient *)

\* How a remote call can end now: it may fail while faults are left.
Outcomes ==
    { "ok" } \cup (IF faults < MaxFaults THEN { "status", "reject" } ELSE { })

\* Each client method awaits fetch and increments the counter on the next
\* line: a fetch that rejects throws before the increment.
CountAfter(c, outcome) == IF outcome = "reject" THEN c ELSE increment(c)

Call(op, phase, id, field, keys, outcome) ==
    [ op |-> op, phase |-> phase, id |-> id, field |-> field, keys |-> keys,
      outcome |-> outcome ]

\* The bookkeeping every remote call shares: the call is issued, the counter
\* moves if fetch resolved, a failure uses up one fault.
Issue(call) ==
    /\ calls' = Append(calls, call)
    /\ count' = CountAfter(count, call.outcome)
    /\ faults' = IF call.outcome = "ok" THEN faults ELSE faults + 1

\* The user filters the two phases pass to getAllRecords, as the store reads
\* them: creation date before the cutoff (deleteOldImages), $id > watermark
\* (runCompression, incremental mode), or none.
Matches(rec, filter) ==
    CASE filter.kind = "old"     -> rec.old
      [] filter.kind = "idAfter" -> rec.id > Number(filter.id)
      [] OTHER                   -> TRUE

\* The record as records.json returns it: $id.value is a string.
Wire(rec) == [ id |-> IdStr(rec.id), files |-> rec.files ]

\* The page the store answers to
\*   $id > "<after>" [and (<filter>)] order by $id asc limit <limit>
QueryStore(after, filter) ==
    LET hit(rec) == rec.id > Number(after) /\ Matches(rec, filter)
        hits == SelectSeq(store, hit)
        n    == IF Len(hits) < limit THEN Len(hits) ELSE limit
    IN  [ i \in 1..n |-> Wire(hits[i]) ]

\* The cursor moved to the first record of the page instead of the last.
NextCursorFirst(page) == page[1].id

\* getAllRecords: lastId = res.records[res.records.length - 1].$id.value
NextCursor(page) == page[Len(page)].id

\* KintoneClient.extractFiles
extractFiles(record, fieldCode) == record.files[fieldCode]

\* fileKeys of uploaded files start above every key of the initial store.
UploadBase == 1000 * 100

\* The file a fileKey names: one of the field's current files or an upload.
FileOfKey(key, current) ==
    IF \E i \in 1..Len(current) : current[i].fileKey = key
    THEN current[CHOOSE i \in 1..Len(current) : current[i].fileKey = key]
    ELSE uploads[key - UploadBase]

\* The store after a successful record.json PUT: the supplied list becomes
\* the whole value of the field.
UpdateStore(recordId, fieldCode, keys) ==
    [ i \in 1..Len(store) |->
        IF store[i].id = Number(recordId)
        THEN [ store[i] EXCEPT !.files[fieldCode] =
                 [ j \in 1..Len(keys) |-> FileOfKey(keys[j], store[i].files[fieldCode]) ] ]
        ELSE store[i] ]

\* A variant of isLastPage that also stops on a page of exactly `limit`
\* records.
isLastPageOrFull(page) == Len(page) <= limit

\* getAllRecords: `if (res.records.length < limit) break;`
isLastPage(page) == Len(page) < limit

\* A variant of queryFailed that swallows the error and lets the phase run.
queryFailedSwallowed(next) == next

\* A variant of queryFailed in which the rejection is never handled and the
\* process stays where it is.
queryFailedHangs(next) == "hang"

\* Where control goes when a page query throws: nothing in getAllRecords, the
\* phase or main catches it, so it reaches main().catch and the process exits.
queryFailed(next) == "exit"

\* One iteration of the while loop of getAllRecords for a phase: a page query;
\* the last page hands `all` to the phase at pc `next`, a failed query throws
\* through the phase and main to main().catch, which exits with 1.
FetchPage(phase, filter, next) ==
    \E o \in Outcomes :
        /\ Issue(Call("query", phase, lastId, "", << >>, o))
        /\ IF o = "ok"
           THEN LET page == QueryStore(lastId, filter)
                IN  /\ all' = all \o page
                    /\ IF isLastPage(page)
                       THEN /\ records' = all \o page
                            /\ pc' = next
                            /\ lastId' = lastId
                       ELSE /\ lastId' = NextCursor(page)
                            /\ UNCHANGED << records, pc >>
                    /\ exitCode' = exitCode
           ELSE /\ pc' = queryFailed(next)
                /\ exitCode' = 1
                /\ UNCHANGED << all, lastId, records >>

----------------------------------------------------------------------------
(* Initial state *)

\* The state after loadConfig and the two constructors, for a configuration
\* drawn from `configs`, with control at `start`.
InitWith(configs, start) ==
    /\ cfg \in configs
    /\ store = MakeStore(cfg.shapes, cfg.cutoff)
    /\ uploads = << >>
    /\ count = 0
    /\ calls = << >>
    /\ pc = start
    /\ all = << >>
    /\ lastId = << 0 >>
    /\ records = << >>
    /\ ri = 1 /\ fi = 1 /\ ai = 1
    /\ delResults = << >>
    /\ delStopped = FALSE
    /\ totalDeleted = 0
    /\ cmpResults = << >>
    /\ result = << >>
    /\ processedCount = 0
    /\ cmpStopped = FALSE
    /\ maxId = << 0 >>
    /\ updatedFileKeys = << >>
    /\ fieldModified = FALSE
    /\ totalCompressed = 0
    /\ buffer = << >>
    /\ visited = { }
    /\ emitted = << >>
    /\ hasErrors = FALSE
    /\ exitCode = -1
    /\ faults = 0
    /\ probe = << >>
    /\ ret = << >>

Init == InitWith(Configs, "main") /\ job = << >>

----------------------------------------------------------------------------
(* Groups of variables an action leaves alone *)

clientVars == << count, calls, faults >>
pageVars   == << all, lastId, records >>
delVars    == << delResults, delStopped, totalDeleted >>
planVars   == << result, updatedFileKeys, fieldModified, totalCompressed, buffer >>
loopVars   == << cmpResults, processedCount, cmpStopped, maxId, visited >>
envVars    == << cfg, probe, job, ret >>

----------------------------------------------------------------------------
(* main, up to the first phase *)

\* main: loadConfig, new ApiCounter, new KintoneClient; phase 1 only if enabled.
Main ==
    /\ pc = "main"
    /\ pc' = IF cfg.enableDeleteOldImages THEN "del_fetch" ELSE "cmp_fetch"
    /\ UNCHANGED << envVars, store, uploads, clientVars, pageVars, ri, fi, ai,
                    delVars, planVars, loopVars, emitted, hasErrors, exitCode >>

----------------------------------------------------------------------------
(* deleteOldImages *)

imageFiles(files)    == SelectSeq(files, LAMBDA f : isImageFile(f.name))
nonImageFiles(files) == SelectSeq(files, LAMBDA f : ~isImageFile(f.name))

KeysOf(files) == [ i \in 1..Len(files) |-> files[i].fileKey ]
NamesOf(files) == [ i \in 1..Len(files) |-> files[i].name ]

\* The plan changed to write back every file of the field.
remainingFileKeysAll(files) == KeysOf(files)

\* remainingFileKeys = nonImageFiles.map(f => ({ fileKey: f.fileKey }))
remainingFileKeys(files) == KeysOf(nonImageFiles(files))

\* The loop position after the current field: next field, else next record.
NextRi == IF fi < Len(fieldCodes) THEN ri ELSE ri + 1
NextFi == IF fi < Len(fieldCodes) THEN fi + 1 ELSE 1

\* client.getAllRecords(`作成日時 < "${cutoffDate}" ...`, ...)
DelFetchPage ==
    /\ pc = "del_fetch"
    /\ FetchPage("delete", [ kind |-> "old" ], "del_loop")
    /\ UNCHANGED << envVars, store, uploads, ri, fi, ai, delVars, planVars,
                    loopVars, emitted, hasErrors >>

\* if (!apiCounter.hasCapacity(1)) { stoppedByApiLimit = true; break; }
DelQuotaStop ==
    /\ pc = "del_loop" /\ ri <= Len(records) /\ ~delStopped
    /\ ~hasCapacity(DeleteNeeded)
    /\ delStopped' = TRUE
    /\ UNCHANGED << envVars, store, uploads, clientVars, pageVars, pc, ri, fi, ai,
                    delResults, totalDeleted, planVars, loopVars, emitted, hasErrors, exitCode >>

\* if (files.length === 0) continue;  if (imageFiles.length === 0) continue;
DelSkipField ==
    /\ pc = "del_loop" /\ ri <= Len(records) /\ ~delStopped
    /\ hasCapacity(DeleteNeeded)
    /\ LET files == extractFiles(records[ri], fieldCodes[fi])
       IN  Len(files) = 0 \/ Len(imageFiles(files)) = 0
    /\ ri' = NextRi /\ fi' = NextFi
    /\ UNCHANGED << envVars, store, uploads, clientVars, pageVars, pc, ai,
                    delVars, planVars, loopVars, emitted, hasErrors, exitCode >>

\* A variant of DelUpdateField that counts the images of a field as deleted
\* before it knows the outcome of the update.
DelUpdateFieldCountsFailed ==
    /\ pc = "del_loop" /\ ri <= Len(records) /\ ~delStopped
    /\ hasCapacity(DeleteNeeded)
    /\ LET recordId == records[ri].id
           files    == extractFiles(records[ri], fieldCodes[fi])
           keys     == remainingFileKeys(files)
       IN  /\ Len(imageFiles(files)) > 0
           /\ \E o \in Outcomes :
                /\ Issue(Call("update", "delete", recordId, fieldCodes[fi], keys, o))
                /\ store' = IF o = "ok"
                            THEN UpdateStore(recordId, fieldCodes[fi], keys)
                            ELSE store
                /\ delResults' = Append(delResults,
                       [ recordId     |-> recordId,
                         deletedFiles |-> NamesOf(imageFiles(files)),
                         keptFiles    |-> NamesOf(nonImageFiles(files)),
                         error        |-> (o # "ok") ])
                /\ totalDeleted' = totalDeleted + Len(imageFiles(files))
    /\ ri' = NextRi /\ fi' = NextFi
    /\ UNCHANGED << envVars, uploads, pageVars, pc, ai, delStopped, planVars,
                    loopVars, emitted, hasErrors, exitCode >>

\* The field holds images: one updateRecord call with the non-image keys; a
\* failed call is caught and recorded in result.error.
DelUpdateField ==
    /\ pc = "del_loop" /\ ri <= Len(records) /\ ~delStopped
    /\ hasCapacity(DeleteNeeded)
    /\ LET recordId == records[ri].id
           files    == extractFiles(records[ri], fieldCodes[fi])
           keys     == remainingFileKeys(files)
       IN  /\ Len(imageFiles(files)) > 0
           /\ \E o \in Outcomes :
                /\ Issue(Call("update", "delete", recordId, fieldCodes[fi], keys, o))
                /\ store' = IF o = "ok"
                            THEN UpdateStore(recordId, fieldCodes[fi], keys)
                            ELSE store
                /\ delResults' = Append(delResults,
                       [ recordId     |-> recordId,
                         deletedFiles |-> NamesOf(imageFiles(files)),
                         keptFiles    |-> NamesOf(nonImageFiles(files)),
                         error        |-> (o # "ok") ])
                /\ totalDeleted' = IF o = "ok"
                                   THEN totalDeleted + Len(imageFiles(files))
                                   ELSE totalDeleted
    /\ ri' = NextRi /\ fi' = NextFi
    /\ UNCHANGED << envVars, uploads, pageVars, pc, ai, delStopped, planVars,
                    loopVars, emitted, hasErrors, exitCode >>

\* The main's test of deleteResult.stoppedByApiLimit dropped.
SkipCompressionNever(stopped) == FALSE

\* main: if (deleteResult.stoppedByApiLimit) process.exit(hasErrors ? 1 : 0)
SkipCompression(stopped) == stopped

\* A variant of exitStatus that reports success whatever was recorded.
exitStatusZero(errors) == 0

\* main: process.exit(hasErrors ? 1 : 0) after a pruner quota stop;
\* if (hasErrors) process.exit(1) at the end, else the process ends with 0.
exitStatus(errors) == IF errors THEN 1 ELSE 0

\* deleteOldImages returns; main counts the outcomes with an error and either
\* exits (the phase stopped on the quota) or goes on to runCompression.
DelReturn ==
    /\ pc = "del_loop" /\ (delStopped \/ ri > Len(records))
    /\ LET deleteErrors ==
               Cardinality({ i \in 1..Len(delResults) : delResults[i].error })
       IN  /\ hasErrors' = (deleteErrors > 0)
           /\ IF SkipCompression(delStopped)
              THEN /\ pc' = "exit"
                   /\ exitCode' = exitStatus(deleteErrors > 0)
                   /\ UNCHANGED << pageVars, ri, fi >>
              ELSE /\ pc' = "cmp_fetch"
                   /\ all' = << >> /\ lastId' = << 0 >> /\ records' = << >>
                   /\ ri' = 1 /\ fi' = 1
                   /\ exitCode' = exitCode
    /\ UNCHANGED << envVars, store, uploads, clientVars, ai, delVars, planVars,
                    loopVars, emitted >>

----------------------------------------------------------------------------
(* compressor *)

\* A variant of toJpegName that appends ".jpg" to the whole name.
toJpegNameAppend(fileName) == fileName \o << ".", "j", "p", "g" >>

\* toJpegName: fileName.replace(/\.[^.]+$/, ".jpg")
toJpegName(fileName) ==
    LET d == ExtDot(fileName)
    IN  IF d = 0 THEN fileName
        ELSE SubSeq(fileName, 1, d - 1) \o << ".", "j", "p", "g" >>

\* makeResult, for encoded data of the given length.
makeResult(dataLength, originalSize, fileName) ==
    [ originalSize   |-> originalSize,
      compressedSize |-> dataLength,
      originalName   |-> fileName,
      newName        |-> toJpegName(fileName) ]

\* The quality ladder tried from the low end.
QUALITY_STEPS_Ascending == << 40, 60, 80 >>

QUALITY_STEPS == << 80, 60, 40 >>

RESIZE_STEPS == << 3000, 2000, 1500 >>

\* metadata.width ?? 0: a dimension sharp could not read is << >>.
OrZero(dimension) == IF dimension = << >> THEN 0 ELSE dimension[1]

Max2(a, b) == IF a >= b THEN a ELSE b

\* The arguments of one compressToBuffer call and what sharp does with the
\* buffer: `metadata` holds width and height, q[quality] is the length of the
\* JPEG encoding of the unresized image at that quality, r[maxDimension] the
\* length of the encoding at the lowest quality after the resize to that
\* dimension.
Job(length, fileName, maxSize, startQuality, width, height, q, r) ==
    [ length |-> length, fileName |-> fileName, maxSizeBytes |-> maxSize,
      startQuality |-> startQuality,
      metadata |-> [ width |-> width, height |-> height ], q |-> q, r |-> r ]

\* `data` after sharp(buffer).jpeg({ quality }).toBuffer()
EncodeQuality(j, quality) ==
    [ quality |-> quality, resize |-> << >>, length |-> j.q[quality] ]

\* `data` after sharp(buffer).resize(resizeOpts).jpeg({ quality: last }).toBuffer()
EncodeResized(j, maxDimension) ==
    [ quality |-> QUALITY_STEPS[Len(QUALITY_STEPS)],
      resize  |-> << [ side |-> IF OrZero(j.metadata.width) >= OrZero(j.metadata.height)
                                THEN "width" ELSE "height",
                       to   |-> maxDimension ] >>,
      length  |-> j.r[maxDimension] ]

\* A variant of nothingToDo with a strict comparison.
nothingToDoStrict(j) ==
    j.length < j.maxSizeBytes \/ ~isImageFile(j.fileName)

\* if (originalSize <= maxSizeBytes || !isImageFile(fileName)) return null;
nothingToDo(j) ==
    j.length <= j.maxSizeBytes \/ ~isImageFile(j.fileName)

\* A variant of skipResize that tries every target.
skipResizeNever(longestSide, maxDimension) == FALSE

\* if (longestSide <= maxDimension) continue;
skipResize(longestSide, maxDimension) == longestSide <= maxDimension

\* A variant of bestEffort that gives up.
bestEffortNone(tried) == << >>

\* if (data) return makeResult(data, ...); return null;  `data` is the last
\* buffer encoded.
bestEffort(tried) ==
    IF tried # << >> THEN << tried[Len(tried)] >> ELSE << >>

\* for (const quality of QUALITY_STEPS): the encodings tried from step i on,
\* after those in `tried`; found is TRUE when the last of them fits.
RECURSIVE qualityLoop(_, _, _)
qualityLoop(j, i, tried) ==
    IF i > Len(QUALITY_STEPS) THEN [ found |-> FALSE, tried |-> tried ]
    ELSE LET quality == QUALITY_STEPS[i]
         IN  IF quality > j.startQuality THEN qualityLoop(j, i + 1, tried)
             ELSE LET data == EncodeQuality(j, quality)
                  IN  IF data.length <= j.maxSizeBytes
                      THEN [ found |-> TRUE, tried |-> Append(tried, data) ]
                      ELSE qualityLoop(j, i + 1, Append(tried, data))

\* for (const maxDimension of RESIZE_STEPS)
RECURSIVE resizeLoop(_, _, _)
resizeLoop(j, i, tried) ==
    IF i > Len(RESIZE_STEPS) THEN [ found |-> FALSE, tried |-> tried ]
    ELSE LET maxDimension == RESIZE_STEPS[i]
             longestSide  == Max2(OrZero(j.metadata.width), OrZero(j.metadata.height))
         IN  IF skipResize(longestSide, maxDimension)
             THEN resizeLoop(j, i + 1, tried)
             ELSE LET data == EncodeResized(j, maxDimension)
                  IN  IF data.length <= j.maxSizeBytes
                      THEN [ found |-> TRUE, tried |-> Append(tried, data) ]
                      ELSE resizeLoop(j, i + 1, Append(tried, data))

\* compressToBuffer step by step.  `tried` lists the buffers encoded, in
\* order; `returned` is << >> for null, or the buffer returned with its
\* CompressResult.
compressLadder(j) ==
    LET give(tried, data) ==
            [ tried    |-> tried,
              returned |-> IF data = << >> THEN << >>
                           ELSE << [ data   |-> data[1],
                                     result |-> makeResult(data[1].length, j.length,
                                                           j.fileName) ] >> ]
    IN  IF nothingToDo(j) THEN give(<< >>, << >>)
        ELSE LET byQuality == qualityLoop(j, 1, << >>)
             IN  IF byQuality.found
                 THEN give(byQuality.tried, << byQuality.tried[Len(byQuality.tried)] >>)
                 ELSE LET byResize == resizeLoop(j, 1, byQuality.tried)
                      IN  IF byResize.found
                          THEN give(byResize.tried,
                                    << byResize.tried[Len(byResize.tried)] >>)
                          ELSE give(byResize.tried, bestEffort(byResize.tried))

\* compressToBuffer on the downloaded bytes of `file`: null at once for a
\* buffer within the budget or a name that is no image; otherwise what the
\* codec does with these bytes (file.enc): a result, null, or an exception.
\* Returns << >> for null, << "throw" >>, or << "result", CompressResult >>.
compressToBuffer(file) ==
    IF file.size <= maxSizeBytes \/ ~isImageFile(file.name) THEN << >>
    ELSE CASE file.enc = "result" ->
                << "result", makeResult(SmallSize, file.size, file.name) >>
           [] file.enc = "throw"  -> << "throw" >>
           [] OTHER               -> << >>

----------------------------------------------------------------------------
(* runCompression *)

\* The query changed to ignore the watermark.
CompressionFilterAll == [ kind |-> "all" ]

\* query = isIncrementalMode ? `$id > "${config.lastProcessedId}"` : ""
CompressionFilter ==
    IF cfg.lastProcessedId # << >>
    THEN [ kind |-> "idAfter", id |-> cfg.lastProcessedId ]
    ELSE [ kind |-> "all" ]

\* isImageFile(f.name) && Number(f.size) > maxSizeBytes
Oversized(f) == isImageFile(f.name) /\ f.size > maxSizeBytes

\* files.some(...)
needsCompression(files) == \E i \in 1..Len(files) : Oversized(files[i])

recordNeedsCompression(record) ==
    \E f \in 1..Len(fieldCodes) :
        needsCompression(extractFiles(record, fieldCodes[f]))

\* The cap tested with > instead of >=.
BatchReachedLate == cfg.batchSize > 0 /\ processedCount > cfg.batchSize

\* config.batchSize > 0 && processedCount >= config.batchSize
BatchReached == cfg.batchSize > 0 /\ processedCount >= cfg.batchSize

\* a > b as JavaScript compares two strings of digits: by the first
\* character that differs, a proper prefix being the smaller.
StringGreater(a, b) ==
    LET n    == IF Len(a) < Len(b) THEN Len(a) ELSE Len(b)
        diff == { k \in 1..n : a[k] # b[k] }
    IN  IF diff = { } THEN Len(a) > Len(b)
        ELSE LET k == CHOOSE x \in diff : \A y \in diff : x <= y
             IN  a[k] > b[k]

\* maxId tracked by comparing the id strings instead of their numbers.
TrackMaxIdAsString(passed, recordId) ==
    IF passed /\ StringGreater(recordId, maxId) THEN recordId ELSE maxId

\* maxId tracked at the top of the loop body, before the two checks.
TrackMaxIdAlways(passed, recordId) ==
    IF Number(recordId) > Number(maxId) THEN recordId ELSE maxId

\* if (Number(recordId) > Number(maxId)) maxId = recordId; runs only for a
\* record that got past the batch and quota checks.
TrackMaxId(passed, recordId) ==
    IF passed /\ Number(recordId) > Number(maxId) THEN recordId ELSE maxId

\* client.getAllRecords(query, fields)
CmpFetchPage ==
    /\ pc = "cmp_fetch"
    /\ FetchPage("compress", CompressionFilter, "cmp_record")
    /\ UNCHANGED << envVars, store, uploads, ri, fi, ai, delVars, planVars,
                    loopVars, emitted, hasErrors >>

\* if (batchSize > 0 && processedCount >= batchSize) break;
CmpBatchStop ==
    /\ pc = "cmp_record" /\ ri <= Len(records)
    /\ BatchReached
    /\ maxId' = TrackMaxId(FALSE, records[ri].id)
    /\ pc' = "cmp_done"
    /\ UNCHANGED << envVars, store, uploads, clientVars, pageVars, ri, fi, ai,
                    delVars, planVars, cmpResults, processedCount, cmpStopped,
                    visited, emitted, hasErrors, exitCode >>

\* if (!apiCounter.hasCapacity(3)) { stoppedByApiLimit = true; break; }
CmpQuotaStop ==
    /\ pc = "cmp_record" /\ ri <= Len(records)
    /\ ~BatchReached
    /\ ~hasCapacity(CompressionNeeded)
    /\ maxId' = TrackMaxId(FALSE, records[ri].id)
    /\ cmpStopped' = TRUE
    /\ pc' = "cmp_done"
    /\ UNCHANGED << envVars, store, uploads, clientVars, pageVars, ri, fi, ai,
                    delVars, planVars, cmpResults, processedCount,
                    visited, emitted, hasErrors, exitCode >>

\* The record passed both checks and no field holds an oversized image:
\* maxId is tracked, then `continue`.
CmpSkipRecord ==
    /\ pc = "cmp_record" /\ ri <= Len(records)
    /\ ~BatchReached
    /\ hasCapacity(CompressionNeeded)
    /\ ~recordNeedsCompression(records[ri])
    /\ maxId' = TrackMaxId(TRUE, records[ri].id)
    /\ visited' = visited \cup { Number(records[ri].id) }
    /\ ri' = ri + 1
    /\ UNCHANGED << envVars, store, uploads, clientVars, pageVars, pc, fi, ai,
                    delVars, planVars, cmpResults, processedCount, cmpStopped,
                    emitted, hasErrors, exitCode >>

\* A variant of CmpStartRecord that does not wait for the quota check.
CmpStartRecordUnchecked ==
    /\ pc = "cmp_record" /\ ri <= Len(records)
    /\ ~BatchReached
    /\ recordNeedsCompression(records[ri])
    /\ maxId' = TrackMaxId(TRUE, records[ri].id)
    /\ visited' = visited \cup { Number(records[ri].id) }
    /\ result' = [ recordId |-> records[ri].id, files |-> << >>,
                   skipped |-> 0, errors |-> << >> ]
    /\ fi' = 1
    /\ pc' = "cmp_field"
    /\ UNCHANGED << envVars, store, uploads, clientVars, pageVars, ri, ai,
                    delVars, updatedFileKeys, fieldModified, totalCompressed,
                    buffer, cmpResults, processedCount, cmpStopped,
                    emitted, hasErrors, exitCode >>

\* The record passed both checks and needs compression: maxId is tracked, a
\* ProcessResult is opened and the field loop starts.
CmpStartRecord ==
    /\ pc = "cmp_record" /\ ri <= Len(records)
    /\ ~BatchReached
    /\ hasCapacity(CompressionNeeded)
    /\ recordNeedsCompression(records[ri])
    /\ maxId' = TrackMaxId(TRUE, records[ri].id)
    /\ visited' = visited \cup { Number(records[ri].id) }
    /\ result' = [ recordId |-> records[ri].id, files |-> << >>,
                   skipped |-> 0, errors |-> << >> ]
    /\ fi' = 1
    /\ pc' = "cmp_field"
    /\ UNCHANGED << envVars, store, uploads, clientVars, pageVars, ri, ai,
                    delVars, updatedFileKeys, fieldModified, totalCompressed,
                    buffer, cmpResults, processedCount, cmpStopped,
                    emitted, hasErrors, exitCode >>

\* if (files.length === 0) continue;  if (!needsCompression) continue;
CmpSkipField ==
    /\ pc = "cmp_field" /\ fi <= Len(fieldCodes)
    /\ ~needsCompression(extractFiles(records[ri], fieldCodes[fi]))
    /\ fi' = fi + 1
    /\ UNCHANGED << envVars, store, uploads, clientVars, pageVars, pc, ri, ai,
                    delVars, planVars, loopVars, emitted, hasErrors, exitCode >>

\* updatedFileKeys = []; fieldModified = false; the file loop starts.
CmpStartField ==
    /\ pc = "cmp_field" /\ fi <= Len(fieldCodes)
    /\ needsCompression(extractFiles(records[ri], fieldCodes[fi]))
    /\ updatedFileKeys' = << >>
    /\ fieldModified' = FALSE
    /\ ai' = 1
    /\ pc' = "cmp_file"
    /\ UNCHANGED << envVars, store, uploads, clientVars, pageVars, ri, fi,
                    delVars, result, totalCompressed, buffer, loopVars,
                    emitted, hasErrors, exitCode >>

\* After the last field: results.push(result); processedCount++; sleep(200).
CmpEndRecord ==
    /\ pc = "cmp_field" /\ fi > Len(fieldCodes)
    /\ cmpResults' = Append(cmpResults, result)
    /\ processedCount' = processedCount + 1
    /\ ri' = ri + 1
    /\ pc' = "cmp_record"
    /\ UNCHANGED << envVars, store, uploads, clientVars, pageVars, fi, ai,
                    delVars, planVars, cmpStopped, maxId, visited,
                    emitted, hasErrors, exitCode >>

\* The file of the file loop's current iteration.
CurFiles == extractFiles(records[ri], fieldCodes[fi])
CurFile  == CurFiles[ai]

\* An entry of result.errors: `${fieldCode}/${file.name}: ${msg}` for a file,
\* `${fieldCode} レコード更新失敗: ${msg}` for an update (name << >>).
ErrorOf(fieldCode, name, msg) ==
    [ fieldCode |-> fieldCode, name |-> name, msg |-> msg ]

\* A variant of FileFailed that leaves the file out of the plan.
FileFailedDropsKey(msg) ==
    /\ result' = [ result EXCEPT
                     !.errors = Append(@, ErrorOf(fieldCodes[fi], CurFile.name, msg)) ]
    /\ updatedFileKeys' = updatedFileKeys
    /\ ai' = ai + 1
    /\ pc' = "cmp_file"

\* The catch block of the file loop: the error is recorded and the original
\* key is passed through.
FileFailed(msg) ==
    /\ result' = [ result EXCEPT
                     !.errors = Append(@, ErrorOf(fieldCodes[fi], CurFile.name, msg)) ]
    /\ updatedFileKeys' = Append(updatedFileKeys, CurFile.fileKey)
    /\ ai' = ai + 1
    /\ pc' = "cmp_file"

\* A variant of CmpSkipFile that leaves the skipped attachment out of the
\* plan.
CmpSkipFileDropsKey ==
    /\ pc = "cmp_file" /\ ai <= Len(CurFiles)
    /\ ~Oversized(CurFile)
    /\ updatedFileKeys' = updatedFileKeys
    /\ result' = [ result EXCEPT !.skipped = @ + 1 ]
    /\ ai' = ai + 1
    /\ UNCHANGED << envVars, store, uploads, clientVars, pageVars, pc, ri, fi,
                    delVars, fieldModified, totalCompressed, buffer, loopVars,
                    emitted, hasErrors, exitCode >>

\* if (!isImageFile(file.name) || fileSize <= maxSizeBytes): pass through.
CmpSkipFile ==
    /\ pc = "cmp_file" /\ ai <= Len(CurFiles)
    /\ ~Oversized(CurFile)
    /\ updatedFileKeys' = Append(updatedFileKeys, CurFile.fileKey)
    /\ result' = [ result EXCEPT !.skipped = @ + 1 ]
    /\ ai' = ai + 1
    /\ UNCHANGED << envVars, store, uploads, clientVars, pageVars, pc, ri, fi,
                    delVars, fieldModified, totalCompressed, buffer, loopVars,
                    emitted, hasErrors, exitCode >>

\* client.downloadFile, then compressToBuffer on the bytes.  A failed
\* download or a throwing codec goes to the catch block; null passes the
\* original key through; a result waits in `buffer` for the upload.
CmpDownload ==
    /\ pc = "cmp_file" /\ ai <= Len(CurFiles)
    /\ Oversized(CurFile)
    /\ \E o \in Outcomes :
         /\ Issue(Call("download", "compress", records[ri].id, fieldCodes[fi],
                       << CurFile.fileKey >>, o))
         /\ LET compressed == compressToBuffer(CurFile)
            IN  IF o # "ok"
                THEN FileFailed("download") /\ UNCHANGED buffer
                ELSE IF compressed = << "throw" >>
                THEN FileFailed("compress") /\ UNCHANGED buffer
                ELSE IF compressed = << >>
                THEN /\ updatedFileKeys' = Append(updatedFileKeys, CurFile.fileKey)
                     /\ result' = [ result EXCEPT !.skipped = @ + 1 ]
                     /\ ai' = ai + 1
                     /\ UNCHANGED << pc, buffer >>
                ELSE /\ buffer' = << compressed[2] >>
                     /\ pc' = "cmp_upload"
                     /\ UNCHANGED << updatedFileKeys, result, ai >>
    /\ UNCHANGED << envVars, store, uploads, pageVars, ri, fi, delVars,
                    fieldModified, totalCompressed, loopVars,
                    emitted, hasErrors, exitCode >>

\* client.uploadFile(compressed.result.newName, compressed.data): the new key
\* takes the place of the original one; a failed upload goes to the catch
\* block.
CmpUpload ==
    /\ pc = "cmp_upload"
    /\ \E o \in Outcomes :
         /\ Issue(Call("upload", "compress", records[ri].id, fieldCodes[fi],
                       << CurFile.fileKey >>, o))
         /\ IF o = "ok"
            THEN /\ uploads' = Append(uploads,
                       File(UploadBase + Len(uploads) + 1, buffer[1].newName,
                            buffer[1].compressedSize, "null"))
                 /\ updatedFileKeys' =
                       Append(updatedFileKeys, UploadBase + Len(uploads) + 1)
                 /\ result' = [ result EXCEPT !.files = Append(@, buffer[1]) ]
                 /\ fieldModified' = TRUE
                 /\ totalCompressed' = totalCompressed + 1
                 /\ ai' = ai + 1
                 /\ pc' = "cmp_file"
            ELSE /\ FileFailed("upload")
                 /\ UNCHANGED << uploads, fieldModified, totalCompressed >>
    /\ buffer' = << >>
    /\ UNCHANGED << envVars, store, pageVars, ri, fi, delVars, loopVars,
                    emitted, hasErrors, exitCode >>

\* The update issued for every field the file loop went through.
ShouldUpdateAlways(modified) == TRUE

\* The update issued only for the first modified field of a record.
ShouldUpdateOncePerRecord(modified) ==
    /\ modified
    /\ ~\E i \in 1..Len(calls) :
          /\ calls[i].op = "update" /\ calls[i].phase = "compress"
          /\ calls[i].id = records[ri].id

\* if (fieldModified) await client.updateRecord(...)
ShouldUpdate(modified) == modified

\* End of the file loop of a field that was not modified: next field.
CmpNoUpdate ==
    /\ pc = "cmp_file" /\ ai > Len(CurFiles)
    /\ ~ShouldUpdate(fieldModified)
    /\ fi' = fi + 1
    /\ pc' = "cmp_field"
    /\ UNCHANGED << envVars, store, uploads, clientVars, pageVars, ri, ai,
                    delVars, planVars, loopVars, emitted, hasErrors, exitCode >>

\* A variant of CmpUpdate in which a failed update ends the work on the
\* record: the fields after it are not looked at.
CmpUpdateAbortsRecord ==
    /\ pc = "cmp_file" /\ ai > Len(CurFiles)
    /\ ShouldUpdate(fieldModified)
    /\ \E o \in Outcomes :
         /\ Issue(Call("update", "compress", records[ri].id, fieldCodes[fi],
                       updatedFileKeys, o))
         /\ store' = IF o = "ok"
                     THEN UpdateStore(records[ri].id, fieldCodes[fi], updatedFileKeys)
                     ELSE store
         /\ result' = IF o = "ok" THEN result
                      ELSE [ result EXCEPT
                               !.errors = Append(@, ErrorOf(fieldCodes[fi], << >>, "update")) ]
         /\ fi' = IF o = "ok" THEN fi + 1 ELSE Len(fieldCodes) + 1
    /\ pc' = "cmp_field"
    /\ UNCHANGED << envVars, uploads, pageVars, ri, ai, delVars,
                    updatedFileKeys, fieldModified, totalCompressed, buffer,
                    loopVars, emitted, hasErrors, exitCode >>

\* End of the file loop of a modified field: one updateRecord call with the
\* plan; a failed call is caught and recorded, the field loop goes on.
CmpUpdate ==
    /\ pc = "cmp_file" /\ ai > Len(CurFiles)
    /\ ShouldUpdate(fieldModified)
    /\ \E o \in Outcomes :
         /\ Issue(Call("update", "compress", records[ri].id, fieldCodes[fi],
                       updatedFileKeys, o))
         /\ store' = IF o = "ok"
                     THEN UpdateStore(records[ri].id, fieldCodes[fi], updatedFileKeys)
                     ELSE store
         /\ result' = IF o = "ok" THEN result
                      ELSE [ result EXCEPT
                               !.errors = Append(@, ErrorOf(fieldCodes[fi], << >>, "update")) ]
    /\ fi' = fi + 1
    /\ pc' = "cmp_field"
    /\ UNCHANGED << envVars, uploads, pageVars, ri, ai, delVars,
                    updatedFileKeys, fieldModified, totalCompressed, buffer,
                    loopVars, emitted, hasErrors, exitCode >>

\* The record loop is over (end of the array, or a break): the summary, the
\* LAST_PROCESSED_ID line if any record was fetched, hasErrors; then main's
\* tail: exit status 1 if any error was recorded, else a normal end (0).
CmpReturn ==
    /\ \/ pc = "cmp_record" /\ ri > Len(records)
       \/ pc = "cmp_done"
    /\ emitted' = IF Len(records) > 0 THEN << maxId >> ELSE << >>
    /\ LET errorCount ==
               Cardinality({ i \in 1..Len(cmpResults) : Len(cmpResults[i].errors) > 0 })
       IN  /\ hasErrors' = (hasErrors \/ errorCount > 0)
           /\ exitCode' = exitStatus(hasErrors \/ errorCount > 0)
    /\ pc' = "exit"
    /\ UNCHANGED << envVars, store, uploads, clientVars, pageVars, ri, fi, ai,
                    delVars, planVars, loopVars >>

----------------------------------------------------------------------------
(* The program *)

Next ==
    \/ Main
    \/ DelFetchPage \/ DelQuotaStop \/ DelSkipField \/ DelUpdateField \/ DelReturn
    \/ CmpFetchPage \/ CmpBatchStop \/ CmpQuotaStop \/ CmpSkipRecord
    \/ CmpStartRecord \/ CmpSkipField \/ CmpStartField \/ CmpEndRecord
    \/ CmpSkipFile \/ CmpDownload \/ CmpUpload \/ CmpNoUpdate \/ CmpUpdate
    \/ CmpReturn

Spec == Init /\ [][Next]_vars

\* The configurations of the termination check: the paging and resume
\* stores, and the generated stores without a watermark under no ceiling to
\* speak of, the largest small ceiling, the ceiling of one record's work and
\* a ceiling of nothing, with the cap off or at its largest; under the
\* default ceiling the generated stores run the compression pass only.
FairConfigs ==
    { c \in Configs :
        \/ Len(c.shapes) > MaxRecords
        \/ /\ c.lastProcessedId = << >>
           /\ c.batchSize \in { 0, MaxBatch }
           /\ c.maxApiCalls \in { 0, CompressionNeeded, MaxApiCalls, DefaultMaxApiCalls }
           /\ (c.maxApiCalls = DefaultMaxApiCalls => ~c.enableDeleteOldImages) }

InitFair == InitWith(FairConfigs, "main") /\ job = << >>

\* The program when every remote call returns: the run is sequential, each
\* step is the continuation of the one before it, so a step that can be
\* taken is taken.
SpecFair == InitFair /\ [][Next]_vars /\ WF_vars(Next)

----------------------------------------------------------------------------
(* The ApiCounter on its own: any sequence of increment and hasCapacity     *)
(* calls on a counter of any small limit.                                   *)

CounterConfigs ==
    { Config(m, FALSE, 0, << >>, << >>, 0) : m \in 0..MaxApiCalls }

InitCounter == InitWith(CounterConfigs, "counter") /\ job = << >>

\* apiCounter.increment()
CounterIncrement ==
    /\ pc = "counter"
    /\ count < MaxApiCalls + 2
    /\ count' = increment(count)
    /\ probe' = << >>
    /\ UNCHANGED << cfg, store, uploads, calls, faults, pageVars, pc, ri, fi, ai,
                    delVars, planVars, loopVars, emitted, hasErrors, exitCode,
                    job, ret >>

\* apiCounter.hasCapacity(needed): the value returned and the count before
\* the call are recorded in probe; the method assigns nothing.
CounterHasCapacity ==
    /\ pc = "counter"
    /\ \E needed \in 0..(MaxApiCalls + 2) :
         probe' = << [ needed |-> needed, result |-> hasCapacity(needed),
                       before |-> count ] >>
    /\ UNCHANGED << cfg, store, uploads, clientVars, pageVars, pc, ri, fi, ai,
                    delVars, planVars, loopVars, emitted, hasErrors, exitCode,
                    job, ret >>

NextCounter == CounterIncrement \/ CounterHasCapacity

SpecCounter == InitCounter /\ [][NextCounter]_vars

----------------------------------------------------------------------------
(* compressToBuffer on its own: one call on any of the jobs below.          *)

NameNoExt   == << "d" >>
NameTwoDots == << "a", ".", "b", ".", "J", "P", "G" >>

FileNames == { NamePhotoJpg, NameScanPNG, NameDocPdf, NameNoExt, NameTwoDots }

\* Buffer lengths below, at, just above and well above the budget.
Lengths == { SmallSize, maxSizeBytes, maxSizeBytes + 1, BigSize }

\* Lengths of encodings: within the budget, exactly the budget, above it.
EncodedLengths == { SmallSize, maxSizeBytes, BigSize }

\* TARGET_QUALITY values: below the ladder, between its steps, its top.
StartQualities == { 30, 50, 70, DefaultTargetQuality }

\* Width and height as sharp reports them: unreadable, below every resize
\* target, equal to one, above all (portrait).
Dimensions ==
    { << << >>, << >> >>, << << 1000 >>, << 800 >> >>,
      << << 2000 >>, << 1500 >> >>, << << 1200 >>, << 4000 >> >> }

StepSet(steps) == { steps[i] : i \in 1..Len(steps) }

Jobs ==
    { Job(len, name, maxSizeBytes, sq, dim[1], dim[2], q, r) :
        len \in Lengths, name \in FileNames, sq \in StartQualities,
        dim \in Dimensions,
        q \in [ StepSet(QUALITY_STEPS) -> EncodedLengths ],
        r \in [ StepSet(RESIZE_STEPS) -> EncodedLengths ] }

InitCompress ==
    /\ InitWith({ Config(DefaultMaxApiCalls, FALSE, 0, << >>, << >>, 0) }, "compressor")
    /\ job \in Jobs

\* await compressToBuffer(buffer, fileName, maxSizeBytes, startQuality)
Compress ==
    /\ pc = "compressor"
    /\ ret = << >>
    /\ ret' = << compressLadder(job) >>
    /\ UNCHANGED << cfg, store, uploads, clientVars, pageVars, pc, ri, fi, ai,
                    delVars, planVars, loopVars, emitted, hasErrors, exitCode,
                    probe, job >>

NextCompress == Compress

SpecCompress == InitCompress /\ [][NextCompress]_vars

----------------------------------------------------------------------------
(* Vocabulary of the properties *)

\* The store as the run found it.
Store0 == MakeStore(cfg.shapes, cfg.cutoff)

\* Ground truth of the catalogue: the only attachment that is no image.
IsDocument(f) == f.name = NameDocPdf

NumFields == Len(fieldCodes)
FieldIndex(code) == CHOOSE f \in 1..NumFields : fieldCodes[f] = code

\* The calls of one kind a phase issued for a record.
CallsFor(phase, op, id) ==
    { i \in 1..Len(calls) :
        calls[i].phase = phase /\ calls[i].op = op /\ calls[i].id = id }

\* The fields of a record a phase issued an update call for.
UpdatedFields(phase, id) ==
    { calls[i].field : i \in CallsFor(phase, "update", id) }

IdsOf(recs) == [ i \in 1..Len(recs) |-> Number(recs[i].id) ]

\* The ids of the store that match a filter, ascending.
MatchingIds(filter) ==
    LET hits == SelectSeq(store, LAMBDA rec : Matches(rec, filter))
    IN  [ i \in 1..Len(hits) |-> hits[i].id ]

InDelLoop == pc = "del_loop"
InCmpLoop == pc \in { "cmp_record", "cmp_field", "cmp_file", "cmp_upload", "cmp_done" }

----------------------------------------------------------------------------
(* Properties *)

\* C1: in every reachable state of a run the counter stays within the
\* ceiling: count <= maxApiCalls.
C1_ConsumedWithinCeiling == count <= cfg.maxApiCalls

\* C2: when the compression pass emits watermark W, every record of the store
\* with id <= W and id above the supplied watermark was visited by the record
\* loop (it got past the batch-cap and quota checks).
C2_WatermarkCoversVisited ==
    emitted # << >> =>
        \A i \in 1..Len(store) :
            ( /\ store[i].id <= Number(emitted[1])
              /\ store[i].id > Number(cfg.lastProcessedId) )
            => store[i].id \in visited

\* C2 witness: a quota halt after a visited record, with a record left
\* unvisited above the emitted watermark.
C2_Witness ==
    /\ emitted # << >> /\ cmpStopped
    /\ Number(emitted[1]) >= 1
    /\ Number(emitted[1]) \in visited
    /\ \E i \in 1..Len(store) : store[i].id \notin visited

\* The compression pass ran its record loop to the end of the fetched array.
CmpLoopCompleted ==
    /\ pc = "exit" /\ ~delStopped /\ ~cmpStopped
    /\ ri = Len(records) + 1
    /\ \E i \in 1..Len(calls) : calls[i].phase = "compress" /\ calls[i].op = "query"
    /\ \A i \in 1..Len(calls) :
          (calls[i].phase = "compress" /\ calls[i].op = "query")
          => calls[i].outcome = "ok"

\* C3: a compression pass supplied with watermark w fetches and visits only
\* records with id > w, and a pass that runs its loop to the end visits all
\* of them; over ids 1..10 a fault-free run with watermark 10 visits nothing
\* and one with watermark 5 visits exactly 6..10.
C3_ResumeAboveWatermark ==
    LET w == Number(cfg.lastProcessedId)
    IN  /\ \A id \in visited : id > w
        /\ InCmpLoop => \A i \in 1..Len(records) : Number(records[i].id) > w
        /\ CmpLoopCompleted =>
              visited = { store[i].id : i \in { j \in 1..Len(store) : store[j].id > w } }
        /\ (cfg \in ResumeConfigs /\ faults = 0 /\ pc = "exit") =>
              visited = { id \in 1..10 : id > w }

\* C3 witness: the run over ids 1..10 with watermark 5 ended having visited
\* exactly 6..10.
C3_Witness ==
    /\ pc = "exit"
    /\ cfg.shapes = TenEmpty /\ cfg.lastProcessedId = IdStr(5)
    /\ visited = 6..10

\* C4: the array getAllRecords hands to a phase holds every record of the
\* store that matches the phase's filter, exactly once, in ascending id order.
C4_AllRecordsOnceAscending ==
    /\ InDelLoop => IdsOf(records) = MatchingIds([ kind |-> "old" ])
    /\ InCmpLoop => IdsOf(records) = MatchingIds(CompressionFilter)
    /\ (InDelLoop \/ InCmpLoop) =>
          \A i, j \in 1..Len(records) :
              i < j => Number(records[i].id) < Number(records[j].id)

\* C4 witness: a result that took more than one full page and left records
\* of the store out.
C4_Witness ==
    /\ pc = "cmp_record"
    /\ Len(records) > limit
    /\ Len(records) < Len(store)

\* The end-to-end scenario: ceiling 5, two records with one oversized image
\* each, no deletion phase, no watermark, no cap, no failing call.
C5_Scenario ==
    /\ cfg = Config(5, FALSE, 0, << >>, << "one", "one" >>, 0)
    /\ faults = 0

\* C5 as stated: the run of the scenario halts on the quota with one record
\* compressed, the second record's check failing at count = 3, remaining = 2.
C5_AsStated ==
    (C5_Scenario /\ pc = "exit") =>
        /\ cmpStopped /\ Len(cmpResults) = 1 /\ totalCompressed = 1
        /\ count = 3 /\ remaining = 2

\* C5 amended: the page query is counted too; the first record is compressed
\* with download, upload and update (count 4), the second record's check for
\* 3 fails at count = 4, remaining = 1, and the run halts with
\* stoppedByApiLimit and exactly one record compressed.
C5_ScenarioHalts ==
    (C5_Scenario /\ pc = "exit") =>
        /\ cmpStopped /\ Len(cmpResults) = 1 /\ totalCompressed = 1
        /\ count = 4 /\ remaining = 1
        /\ [ i \in 1..Len(calls) |-> calls[i].op ]
              = << "query", "download", "upload", "update" >>
        /\ \A i \in 2..Len(calls) : calls[i].id = IdStr(1)
        /\ visited = { 1 }

\* C5 witness: the scenario ran to its end.
C5_Witness == C5_Scenario /\ pc = "exit" /\ cmpStopped


\* C6: every update the deletion phase issues for a (record, field) carries
\* exactly the keys of the field's non-image attachments, in their original
\* order, and the field holds at least one image.
C6_PrunerKeepsNonImages ==
    \A i \in 1..Len(calls) :
        (calls[i].phase = "delete" /\ calls[i].op = "update") =>
            LET files == Store0[Number(calls[i].id)].files[calls[i].field]
            IN  /\ calls[i].keys = KeysOf(SelectSeq(files, IsDocument))
                /\ \E j \in 1..Len(files) : ~IsDocument(files[j])

\* C6 witness: a successful update of a field holding a document and images
\* was issued with the document's key alone, and the store holds just that.
C6_Witness ==
    \E i \in 1..Len(calls) :
        /\ calls[i].phase = "delete" /\ calls[i].op = "update"
        /\ calls[i].outcome = "ok"
        /\ Len(calls[i].keys) = 1
        /\ Len(Store0[Number(calls[i].id)].files[calls[i].field]) = 3
        /\ KeysOf(store[Number(calls[i].id)].files[calls[i].field]) = calls[i].keys

\* The deletion phase is about to find no capacity for its next field.
PrunerBlocked ==
    /\ pc = "del_loop" /\ ri <= Len(records) /\ ~delStopped
    /\ ~hasCapacity(DeleteNeeded)

\* C7: when the deletion phase has no capacity for 1 call before a field, its
\* next step sets stoppedByApiLimit without a call; from then on no remote
\* call is issued, no loop position moves, and the only step left is the
\* exit of the process: the compression pass is never started.
C7_PrunerHaltsRun ==
    [][ /\ PrunerBlocked => (delStopped' /\ calls' = calls /\ store' = store)
        /\ delStopped =>
              /\ delStopped' /\ pc' = "exit"
              /\ calls' = calls /\ store' = store /\ count' = count
              /\ ri' = ri /\ fi' = fi
              /\ \A i \in 1..Len(calls) : calls[i].phase = "delete" ]_vars

\* C7 witness: the run ended on the deletion phase's quota stop after the
\* phase had issued an update.
C7_Witness ==
    /\ delStopped /\ pc = "exit"
    /\ \E i \in 1..Len(calls) : calls[i].op = "update"
    /\ \E i \in 1..Len(records) : i > ri

\* The fields of a fetched record the deletion phase owes an update: those
\* holding an image.
OwedDelete(rec) ==
    { fieldCodes[f] : f \in { g \in 1..NumFields :
        \E j \in 1..Len(rec.files[fieldCodes[g]]) :
            ~IsDocument(rec.files[fieldCodes[g]][j]) } }

\* The fields of a record the compression pass owes an update: those for
\* which an upload succeeded.
OwedCompress(id) ==
    { calls[i].field :
        i \in { j \in CallsFor("compress", "upload", id) : calls[j].outcome = "ok" } }

\* C8 as stated: when either phase stops on quota exhaustion, every record
\* has all of the update calls the phase owes it issued, or none.
C8_AsStated ==
    /\ delStopped =>
          \A i \in 1..Len(records) :
              \/ UpdatedFields("delete", records[i].id) = OwedDelete(records[i])
              \/ UpdatedFields("delete", records[i].id) = { }
    /\ cmpStopped =>
          \A i \in 1..Len(records) :
              \/ UpdatedFields("compress", records[i].id) = OwedCompress(records[i].id)
              \/ UpdatedFields("compress", records[i].id) = { }

\* C8 amended: when the compression pass stops on quota exhaustion, every
\* record before the one the check failed for has all its owed updates
\* issued and that record and the later ones received no call at all.  When
\* the deletion phase stops, it stops between two field updates: the records
\* before the current one have all their owed updates, the later ones none,
\* and the current record exactly those of its fields before the field the
\* check failed for.
C8_StopsAtBoundary ==
    /\ cmpStopped =>
          \A i \in 1..Len(records) :
              /\ UpdatedFields("compress", records[i].id) = OwedCompress(records[i].id)
              /\ i >= ri =>
                    \A k \in 1..Len(calls) :
                        (calls[k].phase = "compress" /\ calls[k].op # "query")
                        => calls[k].id # records[i].id
    /\ delStopped =>
          \A i \in 1..Len(records) :
              UpdatedFields("delete", records[i].id) =
                  IF i < ri THEN OwedDelete(records[i])
                  ELSE IF i > ri THEN { }
                  ELSE { c \in OwedDelete(records[i]) : FieldIndex(c) < fi }

\* C8 witness: the compression pass stopped on the quota after a record of
\* which it updated two fields.
C8_Witness ==
    /\ cmpStopped /\ pc = "exit"
    /\ \E i \in 1..Len(records) :
          Cardinality(UpdatedFields("compress", records[i].id)) = 2

\* C9: the counter equals the number of remote calls issued so far.
C9_CountEqualsIssued == count = Len(calls)

\* C10: hasCapacity(n) is true iff count + n <= limit; with count <= limit it
\* is true for n = limit - count and false for n = limit - count + 1; the
\* call leaves count as it was.
C10_HasCapacity ==
    probe # << >> =>
        LET p == probe[1]
        IN  /\ p.result = (p.before + p.needed <= cfg.maxApiCalls)
            /\ count = p.before
            /\ (p.before <= cfg.maxApiCalls /\ p.needed = cfg.maxApiCalls - p.before)
                  => p.result
            /\ (p.before <= cfg.maxApiCalls /\ p.needed = cfg.maxApiCalls - p.before + 1)
                  => ~p.result

\* C10 witness: a call at the boundary, hasCapacity(limit - count), on a
\* counter that has counted, answered true.
C10_Witness ==
    /\ probe # << >>
    /\ probe[1].before > 0
    /\ probe[1].needed > 0
    /\ probe[1].needed = cfg.maxApiCalls - probe[1].before
    /\ probe[1].result

----------------------------------------------------------------------------
(* Pagination and fatal errors *)

\* The page queries a phase has issued.
PageQueries(phase) ==
    { i \in 1..Len(calls) : calls[i].phase = phase /\ calls[i].op = "query" }

\* C11: an enumeration over N matching records that is handed to its phase
\* took exactly N \div limit + 1 page queries: one when N < limit, and one
\* more for every full page.
C11_PageQueryCount ==
    /\ InDelLoop =>
          Cardinality(PageQueries("delete"))
             = (Len(MatchingIds([ kind |-> "old" ])) \div limit) + 1
    /\ InCmpLoop =>
          Cardinality(PageQueries("compress"))
             = (Len(MatchingIds(CompressionFilter)) \div limit) + 1

\* C11 witness: two full pages and a short one, three queries; the analogue
\* of 1200 records at a page size of 500.
C11_Witness ==
    /\ pc = "cmp_record"
    /\ Len(records) = 2 * limit + 1
    /\ Cardinality(PageQueries("compress")) = 3

\* C12: a failed page query is the last call of the run: the process exits
\* with a non-zero status, the phase whose enumeration failed got no records
\* (it recorded no result and visited nothing) and issued no download, upload
\* or update, whatever pages had been collected before.
C12_FailedQueryIsFatal ==
    \A i \in 1..Len(calls) :
        (calls[i].op = "query" /\ calls[i].outcome # "ok") =>
            /\ i = Len(calls)
            /\ pc = "exit"
            /\ exitCode > 0
            /\ \A j \in 1..Len(calls) :
                  calls[j].phase = calls[i].phase => calls[j].op = "query"
            /\ calls[i].phase = "delete" => delResults = << >>
            /\ calls[i].phase = "compress" =>
                  /\ cmpResults = << >> /\ visited = { }
                  /\ processedCount = 0 /\ emitted = << >>

\* C12 witness: the query that failed came after a full page had been
\* collected.
C12_Witness ==
    /\ pc = "exit"
    /\ Len(calls) > 1
    /\ calls[Len(calls)].op = "query" /\ calls[Len(calls)].outcome # "ok"
    /\ calls[Len(calls) - 1].phase = calls[Len(calls)].phase
    /\ Len(all) >= limit

----------------------------------------------------------------------------
(* The compression engine *)

\* The file names of the harness with an extension of the allow-list, and
\* the name each is given: the base name followed by ".jpg".
JpegNameOf ==
    ( NamePhotoJpg :> << "a", ".", "j", "p", "g" >> )
    @@ ( NameScanPNG :> << "b", ".", "j", "p", "g" >> )
    @@ ( NameTwoDots :> << "a", ".", "b", ".", "j", "p", "g" >> )

RecognizedNames == DOMAIN JpegNameOf

\* The call is over and was made on an image above the budget.
OversizedDone ==
    /\ ret # << >>
    /\ job.length > job.maxSizeBytes
    /\ job.fileName \in RecognizedNames

LongestSide ==
    Max2(OrZero(job.metadata.width), OrZero(job.metadata.height))

\* The ladder steps the call may use: qualities not above startQuality,
\* resize targets smaller than the longest side.
EligibleQualities == { x \in { 80, 60, 40 } : x <= job.startQuality }
EligibleResizes   == { d \in { 3000, 2000, 1500 } : d < LongestSide }

FittingQualities == { x \in EligibleQualities : job.q[x] <= job.maxSizeBytes }
FittingResizes   == { d \in EligibleResizes : job.r[d] <= job.maxSizeBytes }

Largest(S)  == CHOOSE x \in S : \A y \in S : y <= x
Smallest(S) == CHOOSE x \in S : \A y \in S : x <= y

Tried    == ret[1].tried
Returned == ret[1].returned

\* C13: when some ladder quality not above startQuality gives an encoding of
\* the unresized original within the budget, the call returns the encoding
\* of the largest such quality, and no resized encoding was made.
C13_LargestFittingQuality ==
    (OversizedDone /\ FittingQualities # { }) =>
        /\ Returned # << >>
        /\ Returned[1].data.resize = << >>
        /\ Returned[1].data.quality = Largest(FittingQualities)
        /\ Returned[1].data.length = job.q[Largest(FittingQualities)]
        /\ Returned[1].result.compressedSize = job.q[Largest(FittingQualities)]
        /\ \A i \in 1..Len(Tried) : Tried[i].resize = << >>

\* C13 witness: quality 80 would fit but is above startQuality, 60 does not
\* fit, 40 does and is returned.
C13_Witness ==
    /\ OversizedDone
    /\ job.startQuality = 70
    /\ job.q[80] <= job.maxSizeBytes
    /\ job.q[60] > job.maxSizeBytes
    /\ LongestSide > 3000
    /\ Returned # << >> /\ Returned[1].data.quality = 40
    /\ Returned[1].data.resize = << >>

\* C14: a resized encoding is made only after every quality not above
\* startQuality was encoded and exceeded the budget, and only to a target
\* smaller than the longest side; an image whose longest side is below every
\* target and whose quality-40 encoding exceeds the budget like the ones
\* before it is never resized and the quality-40 encoding is returned.
C14_ResizeAfterQuality ==
    OversizedDone =>
        /\ \A i \in 1..Len(Tried) :
              Tried[i].resize # << >> =>
                  /\ Tried[i].resize[1].to < LongestSide
                  /\ Tried[i].quality = 40
                  /\ FittingQualities = { }
                  /\ \A x \in EligibleQualities :
                        \E k \in 1..(i - 1) :
                            Tried[k].resize = << >> /\ Tried[k].quality = x
        /\ (LongestSide < 1500 /\ 40 \in EligibleQualities /\ FittingQualities = { }) =>
              /\ \A i \in 1..Len(Tried) : Tried[i].resize = << >>
              /\ Returned # << >>
              /\ Returned[1].data.quality = 40
              /\ Returned[1].data.resize = << >>
              /\ Returned[1].data.length = job.q[40]

\* C14 witness: a longest side of 2000: the targets 3000 and 2000 are
\* skipped, the three quality encodings exceed the budget, the image is
\* resized to 1500 only.
C14_Witness ==
    /\ OversizedDone
    /\ LongestSide = 2000
    /\ job.startQuality = 80
    /\ Len(Tried) = 4
    /\ Tried[4].resize # << >> /\ Tried[4].resize[1].to = 1500
    /\ Returned # << >> /\ Returned[1].data = Tried[4]

\* C15: when no eligible step gives an encoding within the budget, the call
\* returns the encoding of the last resize step tried, or of the lowest
\* quality tried when no resize target was eligible; it returns none exactly
\* when no step was eligible, and then nothing was encoded.
C15_BestEffort ==
    OversizedDone =>
        /\ (FittingQualities = { } /\ FittingResizes = { }) =>
              IF EligibleResizes # { }
              THEN /\ Returned # << >>
                   /\ Returned[1].data.resize # << >>
                   /\ Returned[1].data.resize[1].to = Smallest(EligibleResizes)
                   /\ Returned[1].data.length = job.r[Smallest(EligibleResizes)]
              ELSE IF EligibleQualities # { }
              THEN /\ Returned # << >>
                   /\ Returned[1].data.resize = << >>
                   /\ Returned[1].data.quality = Smallest(EligibleQualities)
                   /\ Returned[1].data.length = job.q[Smallest(EligibleQualities)]
              ELSE Returned = << >>
        /\ Returned = << >> <=> (EligibleQualities = { } /\ EligibleResizes = { })
        /\ Returned = << >> => Tried = << >>
        /\ Returned # << >> => Returned[1].data = Tried[Len(Tried)]

\* C15 witness: every quality and every resize target was tried, none fits,
\* and the encoding of the last resize step, above the budget, is returned.
C15_Witness ==
    /\ OversizedDone
    /\ Len(Tried) = 6
    /\ Returned # << >>
    /\ Returned[1].data.resize # << >> /\ Returned[1].data.resize[1].to = 1500
    /\ Returned[1].result.compressedSize > job.maxSizeBytes

\* C16: a call on a buffer within the budget, or on a name whose lowercase
\* extension is not in the allow-list, returns none and encodes nothing.
C16_NothingToDo ==
    (ret # << >> /\ (job.length <= job.maxSizeBytes
                         \/ job.fileName \notin RecognizedNames)) =>
        /\ Returned = << >>
        /\ Tried = << >>

\* C16 witness: an image of exactly the budget, whose encodings would be
\* smaller, is left alone.
C16_Witness ==
    /\ ret # << >>
    /\ job.length = job.maxSizeBytes
    /\ job.fileName = NameScanPNG
    /\ job.startQuality = 80 /\ job.q[80] < job.maxSizeBytes
    /\ Returned = << >>

\* C17: every result carries the input name as originalName and, as
\* newName, the base name of the input followed by ".jpg", whatever the
\* extension and its letter case.
C17_JpegName ==
    (ret # << >> /\ Returned # << >>) =>
        /\ job.fileName \in RecognizedNames
        /\ Returned[1].result.originalName = job.fileName
        /\ Returned[1].result.newName = JpegNameOf[job.fileName]

\* C17 witness: b.PNG comes back as b.jpg.
C17_Witness ==
    /\ ret # << >> /\ Returned # << >>
    /\ job.fileName = NameScanPNG
    /\ Returned[1].result.newName = << "b", ".", "j", "p", "g" >>
    /\ Returned[1].result.originalName = << "b", ".", "P", "N", "G" >>

----------------------------------------------------------------------------
(* Exit status and per-file failures *)

\* Some outcome of either phase carries an error.
ErrorRecorded ==
    \/ \E i \in 1..Len(delResults) : delResults[i].error
    \/ \E i \in 1..Len(cmpResults) : cmpResults[i].errors # << >>

\* A page query failed: the one error that nothing catches before main().catch.
FatalError ==
    \E i \in 1..Len(calls) : calls[i].op = "query" /\ calls[i].outcome # "ok"

\* C18: the process exits with a non-zero status if and only if an error was
\* recorded in either phase or a fatal error occurred; in particular a run
\* that only stopped on the quota exits with zero, and a run in which any
\* remote call failed does not.
C18_ExitStatus ==
    pc = "exit" =>
        /\ exitCode \in { 0, 1 }
        /\ exitCode # 0 <=> (ErrorRecorded \/ FatalError)
        /\ (\E i \in 1..Len(calls) : calls[i].outcome # "ok") => exitCode # 0

\* C18 witness: the compression pass compressed a record, then stopped on
\* the quota; nothing failed and the status is zero.
C18_Witness ==
    /\ pc = "exit"
    /\ cmpStopped /\ processedCount > 0 /\ totalCompressed > 0
    /\ ~ErrorRecorded /\ ~FatalError
    /\ exitCode = 0

\* The step issues a download or an upload of the compression pass.
FileCallStep ==
    /\ Len(calls') = Len(calls) + 1
    /\ calls'[Len(calls')].phase = "compress"
    /\ calls'[Len(calls')].op \in { "download", "upload" }

\* The step is a download, compression or upload of the current file that
\* fails: the call fails, or the codec throws on the downloaded bytes.
FileFailureStep ==
    /\ FileCallStep
    /\ \/ calls'[Len(calls')].outcome # "ok"
       \/ calls'[Len(calls')].op = "download" /\ CurFile.enc = "throw"

\* The step issues the update of the field in progress.
FieldUpdateStep ==
    /\ Len(calls') = Len(calls) + 1
    /\ calls'[Len(calls')].phase = "compress"
    /\ calls'[Len(calls')].op = "update"

\* The file names of the field in progress that result.errors names.
FailedNames ==
    { result.errors[i].name : i \in { k \in 1..Len(result.errors) :
                                         result.errors[k].fieldCode = fieldCodes[fi] } }

\* C19: a failed download, compression or upload of an oversized image is
\* recorded as an error of the record in progress, the original key takes
\* the file's position in the plan, and the pass goes on with the next file
\* of the same field; the update of the field sends a key for every
\* attachment, the original one for each failed file; and the pass leaves
\* its loop only at the end of the records or on a quota or batch halt.
C19_FileFailureContained ==
    [][ /\ FileFailureStep =>
              /\ Len(result'.errors) = Len(result.errors) + 1
              /\ result'.errors[Len(result'.errors)].fieldCode = fieldCodes[fi]
              /\ result'.errors[Len(result'.errors)].name = CurFile.name
              /\ result'.recordId = records[ri].id
              /\ updatedFileKeys' = Append(updatedFileKeys, CurFile.fileKey)
              /\ Len(updatedFileKeys') = ai
              /\ ai' = ai + 1 /\ ri' = ri /\ fi' = fi
              /\ pc' = "cmp_file"
              /\ exitCode' = exitCode
        /\ FieldUpdateStep =>
              LET keys == calls'[Len(calls')].keys
              IN  /\ Len(keys) = Len(CurFiles)
                  /\ \A k \in 1..Len(CurFiles) :
                        CurFiles[k].name \in FailedNames
                           => keys[k] = CurFiles[k].fileKey
        /\ (InCmpLoop /\ pc' = "exit") =>
              \/ ri > Len(records)
              \/ cmpStopped
              \/ BatchReached
      ]_vars

\* C19 witness: a file of one record failed, the pass went on and
\* compressed and updated a later record; the failure is in the results.
C19_Witness ==
    /\ pc = "exit"
    /\ \E i, j, k \in 1..Len(calls) :
          /\ i < j /\ j < k
          /\ calls[i].phase = "compress" /\ calls[i].op = "download"
          /\ calls[i].outcome # "ok"
          /\ calls[j].op = "upload" /\ calls[j].outcome = "ok"
          /\ calls[k].op = "update" /\ calls[k].outcome = "ok"
          /\ Number(calls[j].id) > Number(calls[i].id)
          /\ calls[k].id = calls[j].id
    /\ Len(cmpResults) = 2
    /\ cmpResults[1].errors # << >>
    /\ exitCode = 1

----------------------------------------------------------------------------
(* The watermark across runs *)

\* C20: the watermark a compression pass emits is never smaller than the
\* watermark it was supplied with, however the pass ends.
C20_WatermarkNotBelowSupplied ==
    emitted # << >> => Number(emitted[1]) >= Number(cfg.lastProcessedId)

Max(S) == CHOOSE x \in S : \A y \in S : y <= x

\* C21: when the record loop visited records, the watermark line carries the
\* numerically largest id among them, whether or not a visited record held
\* anything to compress and whether or not its compression failed; a pass
\* that visited records and returned has emitted the line.
C21_EmittedIsMaxVisited ==
    /\ (emitted # << >> /\ visited # { }) => Number(emitted[1]) = Max(visited)
    /\ (InCmpLoop /\ visited # { }) => Number(maxId) = Max(visited)
    /\ (pc = "exit" /\ visited # { } /\ ~FatalError) => emitted # << >>

\* C21 witness: ten records without attachments, ids 1 to 10, no watermark:
\* all are visited, none is compressed, and 10 is emitted (as a string "10"
\* is smaller than "9").
C21_Witness ==
    /\ pc = "exit"
    /\ cfg.lastProcessedId = << >>
    /\ Cardinality(visited) = 10
    /\ cmpResults = << >>
    /\ emitted = << IdStr(10) >>

----------------------------------------------------------------------------
(* The updates of the compression pass *)

\* The attachment list of a field as the pass fetched it.
FetchedFiles(id, fieldCode) ==
    LET r == CHOOSE k \in 1..Len(records) : records[k].id = id
    IN  records[r].files[fieldCode]

\* The successful uploads of the pass for one attachment, before call i.
UploadsOf(id, fieldCode, key, i) ==
    { j \in 1..(i - 1) :
        /\ calls[j].op = "upload" /\ calls[j].outcome = "ok"
        /\ calls[j].id = id /\ calls[j].field = fieldCode
        /\ calls[j].keys = << key >> }

\* The key the store returned for the upload issued as call j: uploads are
\* numbered in the order they succeed.
UploadedKey(j) ==
    UploadBase + Cardinality({ k \in 1..j : calls[k].op = "upload"
                                            /\ calls[k].outcome = "ok" })

CompressUpdates ==
    { i \in 1..Len(calls) : calls[i].phase = "compress" /\ calls[i].op = "update" }

\* C22: every update of the compression pass sends, for the field as it was
\* fetched, one key per attachment in the attachments' order: the key
\* returned by the upload of that attachment's compressed bytes if there was
\* one, else the attachment's own key.
C22_PlanKeepsOrder ==
    \A i \in CompressUpdates :
        LET files == FetchedFiles(calls[i].id, calls[i].field)
        IN  /\ Len(calls[i].keys) = Len(files)
            /\ \A k \in 1..Len(files) :
                  LET ups == UploadsOf(calls[i].id, calls[i].field, files[k].fileKey, i)
                  IN  /\ Cardinality(ups) <= 1
                      /\ calls[i].keys[k] =
                            IF ups = { } THEN files[k].fileKey
                            ELSE UploadedKey(CHOOSE j \in ups : TRUE)

\* C22 witness: an update of a field of three attachments: a document passed
\* through, an image replaced by its upload, an image whose compression
\* failed kept.
C22_Witness ==
    \E i \in CompressUpdates :
        LET files == FetchedFiles(calls[i].id, calls[i].field)
        IN  /\ Len(files) = 3
            /\ calls[i].keys[1] = files[1].fileKey
            /\ calls[i].keys[2] > UploadBase
            /\ calls[i].keys[3] = files[3].fileKey
            /\ files[3].enc = "throw"

\* The update calls of the pass for a field of a record.
UpdatesOf(id, fieldCode) ==
    { i \in CompressUpdates : calls[i].id = id /\ calls[i].field = fieldCode }

\* The successful uploads of the pass for a field of a record.
OkUploadsOf(id, fieldCode) ==
    { j \in 1..Len(calls) :
        /\ calls[j].op = "upload" /\ calls[j].outcome = "ok"
        /\ calls[j].id = id /\ calls[j].field = fieldCode }

\* The field loop of the pass is through field f of the r-th fetched record.
FieldDone(r, f) ==
    \/ r < ri
    \/ r = ri /\ pc \in { "cmp_field", "cmp_file", "cmp_upload" } /\ f < fi

\* C23: the pass issues at most one update for a field of a record; it issues
\* one only after an attachment of that field was compressed and uploaded;
\* and once it is through a field with such an upload, the update was issued.
C23_UpdateIffModified ==
    \A r \in 1..Len(records) : \A f \in 1..NumFields :
        LET id   == records[r].id
            upds == UpdatesOf(id, fieldCodes[f])
            ups  == OkUploadsOf(id, fieldCodes[f])
        IN  /\ Cardinality(upds) <= 1
            /\ upds # { } =>
                  /\ ups # { }
                  /\ \A i \in upds : \A j \in ups : j < i
            /\ (FieldDone(r, f) /\ ups # { }) => upds # { }

\* C23 witness: the pass is through two records: the only oversized image of
\* the first failed and the record got no update, the image of the second
\* was uploaded and its field got one update.
C23_Witness ==
    /\ Len(cmpResults) = 2
    /\ LET a == cmpResults[1].recordId
           b == cmpResults[2].recordId
       IN  /\ CallsFor("compress", "download", a) # { }
           /\ OkUploadsOf(a, fieldCodes[1]) = { }
           /\ UpdatesOf(a, fieldCodes[1]) = { } /\ UpdatesOf(a, fieldCodes[2]) = { }
           /\ OkUploadsOf(b, fieldCodes[1]) # { }
           /\ Cardinality(UpdatesOf(b, fieldCodes[1])) = 1

\* The step issues an update of the pass and the call fails.
UpdateFailureStep ==
    /\ FieldUpdateStep
    /\ calls'[Len(calls')].outcome # "ok"

\* The records of the fetched list that hold an oversized image.
NeedingCompression ==
    { r \in 1..Len(records) : recordNeedsCompression(records[r]) }

\* C24: a failed update of the pass adds one error naming the field to the
\* result of the record in progress, leaves the store as it was and moves on
\* to the record's next field; the update of that field is never issued
\* again; and a pass with a failed update that was not halted by the quota
\* or the batch cap ends with a result for every fetched record that holds
\* an oversized image.
C24_UpdateFailureContained ==
    [][ /\ UpdateFailureStep =>
              /\ Len(result'.errors) = Len(result.errors) + 1
              /\ result'.errors[Len(result'.errors)].fieldCode = fieldCodes[fi]
              /\ result'.recordId = records[ri].id
              /\ store' = store
              /\ ri' = ri /\ fi' = fi + 1
              /\ pc' = "cmp_field"
              /\ exitCode' = exitCode
        /\ \A i \in CompressUpdates :
              calls[i].outcome # "ok" =>
                  UpdatesOf(calls[i].id, calls[i].field) = { i }
        /\ (InCmpLoop /\ pc' = "exit" /\ ~cmpStopped /\ ~BatchReached
              /\ \E i \in CompressUpdates : calls[i].outcome # "ok") =>
              /\ Len(cmpResults) = Cardinality(NeedingCompression)
              /\ exitCode' = 1
      ]_vars

\* C24 witness: the update of one record failed and was recorded; the pass
\* went on and compressed and updated a later record.
C24_Witness ==
    /\ pc = "exit"
    /\ Len(cmpResults) = 2
    /\ cmpResults[1].errors # << >>
    /\ \E i, j \in CompressUpdates :
          /\ i < j
          /\ calls[i].outcome # "ok" /\ calls[j].outcome = "ok"
          /\ calls[i].id = cmpResults[1].recordId
          /\ calls[j].id = cmpResults[2].recordId

----------------------------------------------------------------------------
(* Failures in the pruner *)

\* The step issues an update of the pruner and the call fails.
PruneFailureStep ==
    /\ Len(calls') = Len(calls) + 1
    /\ calls'[Len(calls')].phase = "delete"
    /\ calls'[Len(calls')].op = "update"
    /\ calls'[Len(calls')].outcome # "ok"

\* The images of the outcomes without an error.
RECURSIVE DeletedIn(_)
DeletedIn(results) ==
    IF results = << >> THEN 0
    ELSE DeletedIn(SubSeq(results, 1, Len(results) - 1))
         + ( IF results[Len(results)].error THEN 0
             ELSE Len(results[Len(results)].deletedFiles) )

\* C25: a failed update of the pruner adds one outcome, with its error set,
\* for the record in progress, leaves the store and the count of deleted
\* images as they were and moves on to the next field, or to the next record
\* after the last field; the count of deleted images is that of the
\* outcomes without an error; and the phase leaves its loop only at the end
\* of the records or on a quota halt.
C25_PruneFailureContained ==
    [][ /\ PruneFailureStep =>
              /\ Len(delResults') = Len(delResults) + 1
              /\ delResults'[Len(delResults')].error
              /\ delResults'[Len(delResults')].recordId = records[ri].id
              /\ totalDeleted' = totalDeleted
              /\ store' = store
              /\ pc' = "del_loop" /\ delStopped' = delStopped
              /\ exitCode' = exitCode
              /\ IF fi < NumFields THEN ri' = ri /\ fi' = fi + 1
                                   ELSE ri' = ri + 1 /\ fi' = 1
        /\ totalDeleted = DeletedIn(delResults)
        /\ (InDelLoop /\ pc' # "del_loop") => (delStopped \/ ri > Len(records))
      ]_vars

\* C25 witness: the pruner's update of one record failed; the phase went on,
\* pruned a later record and counted only that one's images.
C25_Witness ==
    /\ Len(delResults) >= 2
    /\ delResults[1].error
    /\ ~delResults[2].error
    /\ Number(delResults[2].recordId) > Number(delResults[1].recordId)
    /\ totalDeleted = Len(delResults[2].deletedFiles)
    /\ totalDeleted > 0

----------------------------------------------------------------------------
(* Quota and batch halts of the compression pass *)

\* The calls other than page queries the pass issued for a record.
WorkCalls(id) ==
    { i \in 1..Len(calls) :
        calls[i].phase = "compress" /\ calls[i].op # "query" /\ calls[i].id = id }

\* C26: the pass gets past its checks for a record only while three more
\* calls fit under the ceiling; when they do not fit, the one step the pass
\* can take is the quota halt; after the halt no call is issued and the store
\* does not change; and the record the pass halted at and every later one
\* have no call of the pass.
C26_QuotaHaltIsFinal ==
    [][ /\ visited' # visited => count + 3 <= cfg.maxApiCalls
        /\ (pc = "cmp_record" /\ pc' = "cmp_field") => count + 3 <= cfg.maxApiCalls
        /\ (pc = "cmp_record" /\ ri <= Len(records) /\ ~BatchReached
              /\ count + 3 > cfg.maxApiCalls) =>
              /\ cmpStopped' /\ pc' = "cmp_done"
              /\ calls' = calls /\ store' = store
        /\ cmpStopped =>
              /\ calls' = calls /\ store' = store /\ pc' = "exit"
              /\ \A r \in ri..Len(records) : WorkCalls(records[r].id) = { }
      ]_vars

\* C26 witness: the pass compressed and updated a record, halted on the
\* quota at the next one, which holds an oversized image, and ended; that
\* record is as the run found it.
C26_Witness ==
    /\ pc = "exit" /\ cmpStopped
    /\ cfg.lastProcessedId = << >>
    /\ ri = 2 /\ ri <= Len(records)
    /\ WorkCalls(records[1].id) # { }
    /\ recordNeedsCompression(records[ri])
    /\ WorkCalls(records[ri].id) = { }
    /\ store[ri] = Store0[ri]
    /\ store[1] # Store0[1]

\* C27: a result of compressToBuffer is always smaller than the original:
\* compressedSize < originalSize.
C27_ResultSmallerThanOriginal ==
    (ret # << >> /\ Returned # << >>) =>
        Returned[1].result.compressedSize < Returned[1].result.originalSize

\* The records the pass issued a download, upload or update for.
WorkedRecords ==
    { calls[i].id : i \in { k \in 1..Len(calls) :
                              calls[k].phase = "compress" /\ calls[k].op # "query" } }

\* C28: with a batch cap set, the pass works on at most batchSize records
\* and has as many results; once it has batchSize results it visits no
\* further record.
C28_BatchCap ==
    cfg.batchSize > 0 =>
        /\ Cardinality(WorkedRecords) <= cfg.batchSize
        /\ Len(cmpResults) <= cfg.batchSize
        /\ processedCount <= cfg.batchSize
        /\ Len(cmpResults) = cfg.batchSize =>
              \A v \in visited : v <= Number(cmpResults[cfg.batchSize].recordId)

\* C28 witness: the cap is reached with a record holding an oversized image
\* still to come and calls to spare: the pass ends without touching it.
C28_Witness ==
    /\ pc = "exit" /\ ~cmpStopped
    /\ cfg.batchSize > 0
    /\ Len(cmpResults) = cfg.batchSize
    /\ ri <= Len(records)
    /\ recordNeedsCompression(records[ri])
    /\ WorkCalls(records[ri].id) = { }
    /\ count + 3 <= cfg.maxApiCalls

----------------------------------------------------------------------------
(* Termination *)

\* C29: when every remote call returns, every run reaches its exit.
C29_Terminates == <>(pc = "exit")

\* C29 witness: a run at its exit after both phases, each of which took more
\* than one page query, with pruned records behind it.
C29_Witness ==
    /\ pc = "exit"
    /\ Cardinality(PageQueries("delete")) > 1
    /\ Cardinality(PageQueries("compress")) > 1
    /\ delResults # << >>
    /\ visited # { }

====
